---- MODULE Spec2Model ----
(***************************************************************************)
(* Model of the add-on catalog analyzer (src/src/addon_catalog): the       *)
(* aggregation of analysis.py (summarize_addons, _select_latest, to_dict), *)
(* the date parsing of parser.py, fetch_catalog of fetch.py, the WSGI      *)
(* application of web.py and the threaded dashboard of webapp.py.  Each    *)
(* part has its own variables and its own specification; a specification   *)
(* leaves the variables of the other parts idle.                           *)
(*                                                                         *)
(* Representation.  A Python str is a sequence of character codes, so that *)
(* the built-in comparison of strings is the lexicographic order on code   *)
(* points.  None is the empty tuple <<>>; a datetime.date is the triple    *)
(* <<year, month, day>>.  A dict is the sequence of its <<key, value>>     *)
(* items in insertion order, a list is a sequence and a set is a set.      *)
(* An exception is carried next to the locals of the running function:     *)
(* a step result is [env, exc] with exc = <<>> when nothing was raised.    *)
(***************************************************************************)
EXTENDS Integers, Sequences, FiniteSets, TLC

VARIABLES
    addon_list,   \* the argument of the call of summarize_addons
    pc,           \* "call" before the call, "done" after it
    outcome,      \* what the call produced: a returned summary or an exception
    fold,         \* a left fold of _select_latest over the records of one key
    render,       \* a CatalogSummary rendered to JSON and decoded again
    parse,        \* a call of parse_catalog on the elements of a document
    fetch,        \* calls of fetch_catalog on one destination path
    wsgi,         \* the WSGI application of web.py serving requests
    web           \* the threaded dashboard of webapp.py serving requests

vars == <<addon_list, pc, outcome, fold, render, parse, fetch, wsgi, web>>

\* The value of the variables of a part that a specification does not run.
Idle == "idle"

(***************************************************************************)
(* Bounds of the model.                                                    *)
(***************************************************************************)
MaxAddons == 2

(***************************************************************************)
(* Python values.                                                          *)
(***************************************************************************)
None == <<>>

\* bool(x) for the values the code tests: a str, a list, None or a date.
\* A date is always true, None, "" and [] are false.
Truthy(x) == x # <<>>

Range(s) == {s[k] : k \in 1..Len(s)}

\* a < b for two str: lexicographic on code points, a proper prefix is less.
RECURSIVE StrLess(_, _)
StrLess(a, b) ==
    IF b = <<>> THEN FALSE
    ELSE IF a = <<>> THEN TRUE
    ELSE IF Head(a) # Head(b) THEN Head(a) < Head(b)
    ELSE StrLess(Tail(a), Tail(b))

\* a < b for two datetime.date values.
DateLess(a, b) ==
    \/ a[1] < b[1]
    \/ a[1] = b[1] /\ a[2] < b[2]
    \/ a[1] = b[1] /\ a[2] = b[2] /\ a[3] < b[3]

\* The decimal digits of n, at least `width` of them (zero padded).
RECURSIVE Digits(_, _)
Digits(n, width) ==
    IF n < 10 /\ width <= 1 THEN <<48 + n>>
    ELSE Digits(n \div 10, width - 1) \o <<48 + (n % 10)>>

\* date.strftime("%Y-%m")
strftime_Y_m(d) == Digits(d[1], 4) \o <<45>> \o Digits(d[2], 2)

\* str(n) for an int n >= 0
str(n) == Digits(n, 1)

(***************************************************************************)
(* dict operations.                                                        *)
(***************************************************************************)
DictKeys(d) == {d[k][1] : k \in 1..Len(d)}

DictHas(d, key) == key \in DictKeys(d)

DictIndex(d, key) == CHOOSE k \in 1..Len(d) : d[k][1] = key

\* d.get(key, default)
DictGet(d, key, default) ==
    IF DictHas(d, key) THEN d[DictIndex(d, key)][2] ELSE default

\* d[key] = value: an existing key keeps its position, a new key goes last.
DictPut(d, key, value) ==
    IF DictHas(d, key)
    THEN [d EXCEPT ![DictIndex(d, key)] = <<key, value>>]
    ELSE Append(d, <<key, value>>)

\* for x in xs: counts[x] = counts.get(x, 0) + 1
RECURSIVE CountEach(_, _)
CountEach(counts, xs) ==
    IF xs = <<>> THEN counts
    ELSE CountEach(DictPut(counts, Head(xs), DictGet(counts, Head(xs), 0) + 1),
                   Tail(xs))

(***************************************************************************)
(* sorted(...): Python's sort is stable.                                   *)
(***************************************************************************)
\* sorted(a set of str)
RECURSIVE SortedStrs(_)
SortedStrs(S) ==
    IF S = {} THEN <<>>
    ELSE LET m == CHOOSE x \in S : \A y \in S \ {x} : StrLess(x, y)
         IN  <<m>> \o SortedStrs(S \ {m})

\* key=lambda item: (-item[1], item[0])
CountItemLess(x, y) == x[2] > y[2] \/ (x[2] = y[2] /\ StrLess(x[1], y[1]))

RECURSIVE InsertByCount(_, _)
InsertByCount(x, s) ==
    IF s = <<>> THEN <<x>>
    ELSE IF CountItemLess(x, Head(s)) THEN <<x>> \o s
    ELSE <<Head(s)>> \o InsertByCount(x, Tail(s))

\* dict(sorted(counts.items(), key=lambda item: (-item[1], item[0])))
RECURSIVE SortCountItems(_)
SortCountItems(d) ==
    IF d = <<>> THEN <<>>
    ELSE InsertByCount(d[Len(d)], SortCountItems(SubSeq(d, 1, Len(d) - 1)))

RECURSIVE InsertByKey(_, _)
InsertByKey(x, s) ==
    IF s = <<>> THEN <<x>>
    ELSE IF StrLess(x[1], Head(s)[1]) THEN <<x>> \o s
    ELSE <<Head(s)>> \o InsertByKey(x, Tail(s))

\* sorted(d.items(), key=lambda item: item[0])
RECURSIVE SortItemsByKey(_)
SortItemsByKey(d) ==
    IF d = <<>> THEN <<>>
    ELSE InsertByKey(d[Len(d)], SortItemsByKey(SubSeq(d, 1, Len(d) - 1)))

(***************************************************************************)
(* Exceptions and name lookup.                                             *)
(***************************************************************************)
Ok(e) == [env |-> e, exc |-> <<>>]

Raise(e, type, arg, line) ==
    [env |-> e, exc |-> <<[type |-> type, arg |-> arg, line |-> line]>>]

\* A raised exception skips the statements that follow.
Failed(r) == r.exc # <<>>

\* The names bound at module level of analysis.py when summarize_addons runs:
\* its imports, the class, the two functions and __all__.
ModuleNames ==
    {"annotations", "dataclass", "date", "Dict", "Iterable", "List", "Mapping",
     "Optional", "Counter", "Addon", "CatalogSummary", "_select_latest",
     "summarize_addons", "__all__"}

\* The builtins the function uses.
BuiltinNames == {"list", "set", "dict", "sorted", "str", "len"}

\* The names summarize_addons assigns, which makes them its locals.
LocalNames ==
    {"addons", "addon_list", "platforms", "os_types", "architectures",
     "platform_counts", "os_type_counts", "architecture_counts",
     "monthly_counts", "latest_by_description", "addon", "platform", "os_type",
     "month_key", "key", "candidate", "latest_details_sorted",
     "latest_versions", "latest_version_details", "latest_addons",
     "sorted_platform_counts", "sorted_os_counts", "sorted_architecture_counts",
     "sorted_release_counts"}

BoundNames == ModuleNames \cup BuiltinNames \cup LocalNames

\* The statement after step result r evaluates `name`: a name that is a local
\* of no enclosing function, no module global and no builtin raises NameError.
LoadName(r, name, line) ==
    IF Failed(r) \/ name \in BoundNames THEN r
    ELSE Raise(r.env, "NameError", name, line)

(***************************************************************************)
(* _select_latest                                                          *)
(***************************************************************************)
\* The values of latest_by_description are Python objects of two kinds.
AddonObject(a) == [type |-> "Addon", value |-> a]
TupleObject(d, v, a) == [type |-> "tuple", value |-> <<d, v, a>>]

\* _select_latest without "current_date is None or": a dated candidate
\* replaces the current triple only when the current one is dated and earlier.
select_latest_dated_only(current, candidate) ==
    IF /\ Truthy(candidate[1]) /\ Truthy(current[1])
       /\ DateLess(current[1], candidate[1])
    THEN candidate
    ELSE IF candidate[1] = current[1] /\ StrLess(current[2], candidate[2])
    THEN candidate
    ELSE current

\* Lines 65-69, on two (date, version, addon) triples.
select_latest(current, candidate) ==
    LET current_date      == current[1]
        current_version   == current[2]
        candidate_date    == candidate[1]
        candidate_version == candidate[2]
    IN  IF /\ Truthy(candidate_date)
           /\ (current_date = None \/ DateLess(current_date, candidate_date))
        THEN candidate
        ELSE IF /\ candidate_date = current_date
                /\ StrLess(current_version, candidate_version)
        THEN candidate
        ELSE current

\* The call _select_latest(current, candidate) on two objects: lines 63 and 64
\* unpack each argument into three names, which raises TypeError for an
\* object that is not iterable (an Addon).  The result is [value, exc].
call_select_latest(current, candidate) ==
    IF current.type # "tuple"
    THEN [value |-> current,
          exc |-> <<[type |-> "TypeError", arg |-> current.type, line |-> 63]>>]
    ELSE IF candidate.type # "tuple"
    THEN [value |-> current,
          exc |-> <<[type |-> "TypeError", arg |-> candidate.type, line |-> 64]>>]
    ELSE LET selected == select_latest(current.value, candidate.value)
         IN  [value |-> TupleObject(selected[1], selected[2], selected[3]),
              exc |-> <<>>]

(***************************************************************************)
(* summarize_addons                                                        *)
(***************************************************************************)
\* Lines 74-81: the locals before the loop.  The locals assigned after the
\* loop are unbound until then (here: empty).
InitialLocals ==
    [platforms |-> {}, os_types |-> {}, architectures |-> {},
     platform_counts |-> <<>>, os_type_counts |-> <<>>,
     architecture_counts |-> <<>>, monthly_counts |-> <<>>,
     latest_by_description |-> <<>>,
     latest_versions |-> <<>>, latest_version_details |-> <<>>]

\* Lines 84-86.
UpdatePlatforms(e, addon) ==
    [e EXCEPT !.platforms = @ \cup Range(addon.platforms),
              !.platform_counts = CountEach(@, addon.platforms)]

\* Lines 88-90.
UpdateOsTypes(e, addon) ==
    [e EXCEPT !.os_types = @ \cup Range(addon.os_types),
              !.os_type_counts = CountEach(@, addon.os_types)]

\* Lines 92-96.
UpdateArchitecture(e, addon) ==
    IF Truthy(addon.architecture)
    THEN [e EXCEPT !.architectures = @ \cup {addon.architecture},
                   !.architecture_counts =
                       DictPut(@, addon.architecture,
                               DictGet(@, addon.architecture, 0) + 1)]
    ELSE e

\* Lines 98-100.
UpdateMonthly(e, addon) ==
    IF Truthy(addon.available_date)
    THEN LET month_key == strftime_Y_m(addon.available_date)
         IN  [e EXCEPT !.monthly_counts =
                           DictPut(@, month_key, DictGet(@, month_key, 0) + 1)]
    ELSE e

\* Line 102: key = addon.description or addon.id
GroupingKey(addon) ==
    IF Truthy(addon.description) THEN addon.description ELSE addon.id

\* Lines 102-107.  The tuple `candidate` of line 103 is built and not used:
\* line 105 passes the stored object and `addon` itself, line 107 stores
\* `addon` itself.
UpdateLatest(e, addon) ==
    LET key == GroupingKey(addon)
    IN  IF DictHas(e.latest_by_description, key)
        THEN LET r == call_select_latest(
                          DictGet(e.latest_by_description, key, None),
                          AddonObject(addon))
             IN  IF Failed(r)
                 THEN [env |-> e, exc |-> r.exc]
                 ELSE Ok([e EXCEPT !.latest_by_description =
                                       DictPut(@, key, r.value)])
        ELSE Ok([e EXCEPT !.latest_by_description =
                              DictPut(@, key, AddonObject(addon))])

\* Lines 109-112, after step result r: both branches evaluate the name
\* platform_counter.
CountPlatforms(r, addon) ==
    IF Truthy(addon.platforms)
    THEN LoadName(r, "platform_counter", 110)
    ELSE LoadName(r, "platform_counter", 112)

\* Lines 114-117.
CountOsTypes(r, addon) ==
    IF Truthy(addon.os_types)
    THEN LoadName(r, "os_counter", 115)
    ELSE LoadName(r, "os_counter", 117)

\* Line 119.
CountArchitecture(r, addon) ==
    LoadName(LoadName(r, "architecture_counter", 119), "architecture_value", 119)

\* Lines 121-124.
CountRelease(r, addon) ==
    IF Truthy(addon.available_date)
    THEN LoadName(r, "release_counter", 122)
    ELSE LoadName(r, "release_counter", 124)

\* Lines 84-124: one iteration of the loop, after step result r.
LoopBody(r, addon) ==
    IF Failed(r) THEN r
    ELSE CountRelease(
             CountArchitecture(
                 CountOsTypes(
                     CountPlatforms(
                         UpdateLatest(
                             UpdateMonthly(
                                 UpdateArchitecture(
                                     UpdateOsTypes(
                                         UpdatePlatforms(r.env, addon),
                                         addon),
                                     addon),
                                 addon),
                             addon),
                         addon),
                     addon),
                 addon),
             addon)

\* Line 83: for addon in addon_list
RECURSIVE RunLoop(_, _)
RunLoop(r, addons) ==
    IF Failed(r) \/ addons = <<>> THEN r
    ELSE RunLoop(LoopBody(r, Head(addons)), Tail(addons))

\* Lines 126-133: every value of latest_by_description is unpacked into
\* (available_date, version, addon) by the for clause of line 128.
LatestDetails(r) ==
    IF Failed(r) THEN r
    ELSE LET items == SortItemsByKey(r.env.latest_by_description)
             bad   == {k \in 1..Len(items) : items[k][2].type # "tuple"}
         IN  IF bad # {}
             THEN Raise(r.env, "TypeError",
                        items[CHOOSE k \in bad : \A j \in bad : k <= j][2].type,
                        128)
             ELSE Ok([r.env EXCEPT
                      !.latest_versions =
                          [k \in 1..Len(items) |->
                              <<items[k][1], items[k][2].value[2]>>],
                      !.latest_version_details =
                          [k \in 1..Len(items) |-> items[k][2].value[3]]])

\* Lines 135-145: the comprehension evaluates the name LatestAddonEntry once
\* per item, and addon.version on each value.
LatestAddons(r) ==
    IF Failed(r) THEN r
    ELSE LET items == SortItemsByKey(r.env.latest_by_description)
         IN  IF items = <<>> THEN r
             ELSE IF "LatestAddonEntry" \notin BoundNames
             THEN LoadName(r, "LatestAddonEntry", 136)
             ELSE IF items[1][2].type # "Addon"
             THEN Raise(r.env, "AttributeError", "version", 138)
             ELSE r

\* Lines 147-152.
SortedCounters(r) ==
    LoadName(
        LoadName(
            LoadName(
                LoadName(r, "platform_counter", 147),
                "os_counter", 148),
            "architecture_counter", 150),
        "release_counter", 152)

\* Lines 126-152.
AfterLoop(r) == SortedCounters(LatestAddons(LatestDetails(r)))

\* Lines 154-167: the CatalogSummary returned.
BuildSummary(e, addons) ==
    [total_addons           |-> Len(addons),
     unique_platforms       |-> SortedStrs(e.platforms),
     unique_os_types        |-> SortedStrs(e.os_types),
     unique_architectures   |-> SortedStrs(e.architectures),
     latest_versions        |-> e.latest_versions,
     latest_version_details |-> e.latest_version_details,
     platform_counts        |-> SortCountItems(e.platform_counts),
     os_type_counts         |-> SortCountItems(e.os_type_counts),
     architecture_counts    |-> SortCountItems(e.architecture_counts),
     monthly_release_counts |-> SortItemsByKey(e.monthly_counts)]

\* Lines 72-167.  The result is what the caller observes: the summary of a
\* return, or the exception that leaves the function.
summarize_addons(addons) ==
    LET r == AfterLoop(RunLoop(Ok(InitialLocals), addons))
    IN  IF Failed(r)
        THEN [kind |-> "raise", exc |-> r.exc, summary |-> <<>>]
        ELSE [kind |-> "return", exc |-> <<>>,
              summary |-> <<BuildSummary(r.env, addons)>>]

(***************************************************************************)
(* The inputs: Addon records (src/src/addon_catalog/models.py) built from  *)
(* the values of tests/test_catalog.py and the absent/empty cases.  The    *)
(* fields summarize_addons never reads (expiration_date, os_versions,      *)
(* install_command, files) are left out.                                   *)
(***************************************************************************)
Ids == {<<65>>, <<66>>}                                   \* "A", "B"
Descriptions == {<<>>, <<65>>}                            \* "", "A"
Versions ==
    {<<49, 46, 48, 46, 48>>, <<49, 46, 49, 46, 48>>,      \* "1.0.0", "1.1.0"
     <<57>>, <<49, 48>>}                                  \* "9", "10"
Dates == {None, <<2024, 12, 1>>, <<2025, 1, 1>>, <<2025, 2, 1>>}

mt440   == <<109, 116, 52, 52, 48>>
t655    == <<116, 54, 53, 53>>
Windows == <<87, 105, 110, 100, 111, 119, 115>>
Linux   == <<76, 105, 110, 117, 120>>
x64     == <<120, 54, 52>>

\* platforms, os_types and architecture of a record, varied together.
Profiles ==
    {[platforms |-> <<>>, os_types |-> <<>>, architecture |-> None],
     [platforms |-> <<mt440>>, os_types |-> <<Windows>>, architecture |-> x64],
     [platforms |-> <<t655, mt440>>, os_types |-> <<Windows, Linux>>,
      architecture |-> None]}

Addon(id, description, version, available_date, profile) ==
    [id |-> id, description |-> description, version |-> version,
     available_date |-> available_date, platforms |-> profile.platforms,
     os_types |-> profile.os_types, architecture |-> profile.architecture]

AddonPool ==
    {Addon(i, d, v, a, p) :
        i \in Ids, d \in Descriptions, v \in Versions, a \in Dates, p \in Profiles}

AddonLists == UNION {[1..n -> AddonPool] : n \in 0..MaxAddons}

(***************************************************************************)
(* The state machine: one call of summarize_addons on a list of records.   *)
(***************************************************************************)
NoOutcome == [kind |-> "none", exc |-> <<>>, summary |-> <<>>]

\* The variables of the other parts, which this specification leaves idle.
notSummarize == <<fold, render, parse, fetch, wsgi, web>>

\* This part idle, for the specifications of the other parts.
SummarizeIdle == addon_list = <<>> /\ pc = Idle /\ outcome = NoOutcome

Init ==
    /\ addon_list \in AddonLists
    /\ pc = "call"
    /\ outcome = NoOutcome
    /\ fold = Idle /\ render = Idle /\ parse = Idle
    /\ fetch = Idle /\ wsgi = Idle /\ web = Idle

Call ==
    /\ pc = "call"
    /\ outcome' = summarize_addons(addon_list)
    /\ pc' = "done"
    /\ UNCHANGED addon_list
    /\ UNCHANGED notSummarize

Next == Call

Spec == Init /\ [][Next]_vars

(***************************************************************************)
(* What the caller of summarize_addons observes.                           *)
(***************************************************************************)
Done == pc = "done"
Returned == pc = "done" /\ outcome.kind = "return"
Summary == outcome.summary[1]

\* What the code does on every input of the model: the call leaves with the
\* NameError of an unbound counter name, in the first iteration of the loop
\* (line 110 or 112) or, for the empty list, at line 147.
RaisesNameError ==
    Done => /\ outcome.kind = "raise"
            /\ outcome.exc[1].type = "NameError"
            /\ outcome.exc[1].arg = "platform_counter"
            /\ outcome.exc[1].line =
                   IF addon_list = <<>> THEN 147
                   ELSE IF Truthy(addon_list[1].platforms) THEN 110 ELSE 112

\* The literals "未指定" and "未知" of lines 112, 117 and 124, as code points.
Unspecified == <<26410, 25351, 23450>>
Unknown == <<26410, 30693>>

RECURSIVE SumSeq(_)
SumSeq(s) == IF s = <<>> THEN 0 ELSE Head(s) + SumSeq(Tail(s))

Occurrences(xs, label) == Cardinality({k \in 1..Len(xs) : xs[k] = label})

\* The labels a record contributes to a distribution: the values it lists,
\* or the one bucket that stands for none.
OrBucket(xs, bucket) == IF xs = <<>> THEN <<bucket>> ELSE xs
PlatformLabels(a) == OrBucket(a.platforms, Unspecified)
OsTypeLabels(a) == OrBucket(a.os_types, Unspecified)
ArchitectureLabels(a) ==
    IF Truthy(a.architecture) THEN <<a.architecture>> ELSE <<Unspecified>>
PeriodLabels(a) ==
    IF Truthy(a.available_date) THEN <<str(a.available_date[1])>>
    ELSE <<Unknown>>

Counts(dist) == [k \in 1..Len(dist) |-> dist[k][2]]

\* dist counts exactly the labels given per record by labels[k].
CountsLabels(dist, labels) ==
    /\ DictKeys(dist) = UNION {Range(labels[k]) : k \in 1..Len(labels)}
    /\ Len(dist) = Cardinality(DictKeys(dist))
    /\ \A label \in DictKeys(dist) :
           DictGet(dist, label, 0) =
               SumSeq([k \in 1..Len(labels) |-> Occurrences(labels[k], label)])

\* The entries of dist are in descending order of count, equal counts in
\* ascending order of label.
CountOrdered(dist) ==
    \A i, j \in 1..Len(dist) : i < j => CountItemLess(dist[i], dist[j])

Reorderings(s) ==
    {[k \in 1..Len(s) |-> s[f[k]]] :
        f \in {g \in [1..Len(s) -> 1..Len(s)] :
                  \A x, y \in 1..Len(s) : g[x] = g[y] => x = y}}

\* Two records of one grouping key, which are the whole input.
TwoOfOneKey ==
    /\ Len(addon_list) = 2
    /\ GroupingKey(addon_list[1]) = GroupingKey(addon_list[2])

\* C1: two records that share a grouping key and both carry an availability
\* date, one strictly later than the other: the call returns a summary whose
\* latest_versions maps the key to the version of the later-dated record,
\* whichever of the two comes first.
C1_LaterDateWins ==
    (/\ Done
     /\ TwoOfOneKey
     /\ Truthy(addon_list[1].available_date)
     /\ Truthy(addon_list[2].available_date)
     /\ addon_list[1].available_date # addon_list[2].available_date)
    => /\ Returned
       /\ LET later == IF DateLess(addon_list[1].available_date,
                                   addon_list[2].available_date)
                       THEN addon_list[2] ELSE addon_list[1]
          IN  DictGet(Summary.latest_versions, GroupingKey(later), None)
                  = later.version

\* C2: two records that share a grouping key and have equal availability
\* dates (both absent included): the call selects the record whose version
\* string is lexicographically greater; when the version of the second is
\* not greater, the first (the current winner) is kept.
C2_EqualDateGreaterVersionWins ==
    (/\ Done
     /\ TwoOfOneKey
     /\ addon_list[1].available_date = addon_list[2].available_date)
    => /\ Returned
       /\ LET winner == IF StrLess(addon_list[1].version, addon_list[2].version)
                        THEN addon_list[2] ELSE addon_list[1]
          IN  /\ Summary.latest_versions
                     = <<(<<GroupingKey(winner), winner.version>>)>>
              /\ Summary.latest_version_details = <<winner>>

\* C3: the selection is order-independent: the call on the list and the call
\* on every permutation of it return the same latest_versions and the same
\* latest-details list.
C3_SelectionOrderIndependent ==
    (Done /\ Len(addon_list) >= 2)
    => /\ Returned
       /\ \A perm \in Reorderings(addon_list) :
              LET other == summarize_addons(perm)
              IN  /\ other.kind = "return"
                  /\ other.summary[1].latest_versions = Summary.latest_versions
                  /\ other.summary[1].latest_version_details
                         = Summary.latest_version_details

\* C4: the keys of latest_versions are exactly the grouping keys (display
\* name if non-empty, else identifier) of the input records, each once.
C4_KeysAreGroupingKeys ==
    Done
    => /\ Returned
       /\ DictKeys(Summary.latest_versions)
              = {GroupingKey(addon_list[k]) : k \in 1..Len(addon_list)}
       /\ Len(Summary.latest_versions)
              = Cardinality(DictKeys(Summary.latest_versions))

\* C5: summarize_addons is total: for every record list, records with empty
\* description, empty platform/OS lists, absent architecture and absent date
\* included, the call returns a summary and raises nothing.
C5_Total == Done => outcome.kind = "return"

\* C6: total_addons of the returned summary is the length of the input list.
C6_TotalIsLength ==
    Done => Returned /\ Summary.total_addons = Len(addon_list)

\* C7: in the platform, OS-type and architecture distributions every record
\* counts once per value it lists and once under "unspecified" when it lists
\* none, so each distribution sums to at least total_addons.
C7_UnspecifiedBucket ==
    Done
    => /\ Returned
       /\ CountsLabels(Summary.platform_counts,
                       [k \in 1..Len(addon_list) |-> PlatformLabels(addon_list[k])])
       /\ CountsLabels(Summary.os_type_counts,
                       [k \in 1..Len(addon_list) |-> OsTypeLabels(addon_list[k])])
       /\ CountsLabels(Summary.architecture_counts,
                       [k \in 1..Len(addon_list) |->
                           ArchitectureLabels(addon_list[k])])
       /\ SumSeq(Counts(Summary.platform_counts)) >= Summary.total_addons
       /\ SumSeq(Counts(Summary.os_type_counts)) >= Summary.total_addons
       /\ SumSeq(Counts(Summary.architecture_counts)) >= Summary.total_addons

\* C8: the empty record list gives total_addons = 0 and empty unique lists,
\* distributions, latest_versions and latest-details list.
C8_EmptyInput ==
    (Done /\ addon_list = <<>>)
    => /\ Returned
       /\ Summary = [total_addons           |-> 0,
                     unique_platforms       |-> <<>>,
                     unique_os_types        |-> <<>>,
                     unique_architectures   |-> <<>>,
                     latest_versions        |-> <<>>,
                     latest_version_details |-> <<>>,
                     platform_counts        |-> <<>>,
                     os_type_counts         |-> <<>>,
                     architecture_counts    |-> <<>>,
                     monthly_release_counts |-> <<>>]

\* C9: every record counts exactly once in the release-period distribution,
\* under the year of its availability date as a string, or under "unknown"
\* when it has no date; the counts sum to total_addons.
C9_ReleasePeriodPerRecord ==
    Done
    => /\ Returned
       /\ CountsLabels(Summary.monthly_release_counts,
                       [k \in 1..Len(addon_list) |-> PeriodLabels(addon_list[k])])
       /\ SumSeq(Counts(Summary.monthly_release_counts)) = Summary.total_addons

\* C10: the platform, OS-type and architecture distributions of the returned
\* summary list their entries by descending count, equal counts by ascending
\* label.
C10_DistributionsSorted ==
    (Done /\ addon_list # <<>>)
    => /\ Returned
       /\ CountOrdered(Summary.platform_counts)
       /\ CountOrdered(Summary.os_type_counts)
       /\ CountOrdered(Summary.architecture_counts)

\* C11: the latest-details list has the grouping keys of latest_versions in
\* the same ascending order, and its i-th entry is one unmodified input
\* record with the i-th key and the version latest_versions gives that key.
C11_DetailsAreInputRecords ==
    (Done /\ addon_list # <<>>)
    => /\ Returned
       /\ Len(Summary.latest_version_details) = Len(Summary.latest_versions)
       /\ \A i \in 1..Len(Summary.latest_versions) :
              LET entry == Summary.latest_version_details[i]
              IN  /\ entry \in Range(addon_list)
                  /\ GroupingKey(entry) = Summary.latest_versions[i][1]
                  /\ entry.version = Summary.latest_versions[i][2]
       /\ \A i, j \in 1..Len(Summary.latest_versions) :
              i < j => StrLess(Summary.latest_versions[i][1],
                               Summary.latest_versions[j][1])

(***************************************************************************)
(* The left fold of _select_latest over the records of one grouping key,   *)
(* in input order (lines 102-107: the first record of a key is stored, and *)
(* every later one is passed to _select_latest with the stored value).     *)
(* The records are (available_date, version, position) triples, the shape  *)
(* _select_latest unpacks.                                                  *)
(***************************************************************************)
MaxFold == 3

FoldTriples(pairs) == [i \in 1..Len(pairs) |-> <<pairs[i][1], pairs[i][2], i>>]

FoldInputs ==
    UNION {[1..n -> Dates \X Versions] : n \in 1..MaxFold}

notFold == <<addon_list, pc, outcome, render, parse, fetch, wsgi, web>>

FoldInit ==
    /\ \E pairs \in FoldInputs :
           fold = [records |-> FoldTriples(pairs), done |-> 0, current |-> <<>>]
    /\ SummarizeIdle
    /\ render = Idle /\ parse = Idle /\ fetch = Idle /\ wsgi = Idle /\ web = Idle

\* else: latest_by_description[key] = first record of the key
FoldFirst ==
    /\ fold.done = 0
    /\ fold' = [fold EXCEPT !.done = 1, !.current = fold.records[1]]
    /\ UNCHANGED notFold

\* if key in latest_by_description: ... = _select_latest(stored, next record)
FoldStep ==
    /\ fold.done >= 1
    /\ fold.done < Len(fold.records)
    /\ fold' = [fold EXCEPT
                   !.done = fold.done + 1,
                   !.current = select_latest(fold.current,
                                             fold.records[fold.done + 1])]
    /\ UNCHANGED notFold

FoldNext == FoldFirst \/ FoldStep

FoldSpec == FoldInit /\ [][FoldNext]_vars

FoldDone == fold.done = Len(fold.records)

\* The global order on (date, version): an undated record is below every
\* dated one, a later date is above an earlier one, and on equal dates the
\* lexicographically greater version is above.
GlobalLess(a, b) ==
    \/ a[1] = None /\ b[1] # None
    \/ a[1] # None /\ b[1] # None /\ DateLess(a[1], b[1])
    \/ a[1] = b[1] /\ StrLess(a[2], b[2])

\* sort-and-pick-max: the (date, version) of a record no record is above
GlobalMax(records) ==
    LET m == CHOOSE x \in Range(records) :
                 \A y \in Range(records) : ~GlobalLess(x, y)
    IN  <<m[1], m[2]>>

RECURSIVE FoldWinner(_, _)
FoldWinner(current, rest) ==
    IF rest = <<>> THEN current
    ELSE FoldWinner(select_latest(current, Head(rest)), Tail(rest))

MixedDates(records) ==
    /\ Len(records) >= 3
    /\ \E i \in 1..Len(records) : records[i][1] = None
    /\ \E i \in 1..Len(records) : records[i][1] # None

MaxCount == 2

DistFields ==
    {"platform_counts", "os_type_counts", "architecture_counts",
     "monthly_release_counts"}

\* The dicts over the given labels, counts 1..MaxCount, in the order the
\* aggregator gives a distribution: count descending, then label ascending.
Distributions(labels) ==
    UNION {{SortCountItems([k \in 1..Len(SortedStrs(L)) |->
                               <<SortedStrs(L)[k], c[SortedStrs(L)[k]]>>]) :
            c \in [L -> 1..MaxCount]} : L \in SUBSET labels}

\* A CatalogSummary with the given total and distributions; its unique
\* lists are the sorted labels, and it lists no latest versions.
CatalogSummary(total, platforms, os_types, architectures, months) ==
    [total_addons           |-> total,
     unique_platforms       |-> SortedStrs(DictKeys(platforms)),
     unique_os_types        |-> SortedStrs(DictKeys(os_types)),
     unique_architectures   |-> SortedStrs(DictKeys(architectures)),
     latest_versions        |-> <<>>,
     latest_version_details |-> <<>>,
     platform_counts        |-> platforms,
     os_type_counts         |-> os_types,
     architecture_counts    |-> architectures,
     monthly_release_counts |-> months]

RenderSummaries ==
    {CatalogSummary(t, p, o, a, m) :
        t \in 0..MaxCount,
        p \in Distributions({mt440, t655}),
        o \in Distributions({Windows, Linux}),
        a \in Distributions({x64}),
        m \in Distributions({strftime_Y_m(<<2024, 12, 1>>),
                             strftime_Y_m(<<2025, 1, 1>>)})}

\* date.isoformat()
isoformat(d) ==
    Digits(d[1], 4) \o <<45>> \o Digits(d[2], 2) \o <<45>> \o Digits(d[3], 2)

\* Lines 34-49: the dict of one latest-details record (of the fields the
\* records carry here).
AddonDict(addon) ==
    [id |-> addon.id, description |-> addon.description,
     version |-> addon.version,
     available_date |-> IF Truthy(addon.available_date)
                        THEN isoformat(addon.available_date) ELSE None,
     platforms |-> addon.platforms, os_types |-> addon.os_types,
     architecture |-> addon.architecture]

\* to_dict, lines 26-56: dict(self.platform_counts) and so on copy each
\* mapping in its order.
to_dict(summary) ==
    [total_addons |-> summary.total_addons,
     unique_platforms |-> summary.unique_platforms,
     unique_os_types |-> summary.unique_os_types,
     unique_architectures |-> summary.unique_architectures,
     latest_versions |-> summary.latest_versions,
     latest_version_details |->
         [k \in 1..Len(summary.latest_version_details) |->
             AddonDict(summary.latest_version_details[k])],
     platform_counts |-> summary.platform_counts,
     os_type_counts |-> summary.os_type_counts,
     architecture_counts |-> summary.architecture_counts,
     monthly_release_counts |-> summary.monthly_release_counts]

\* json.dumps of a dict of str -> int: with sort_keys the members are
\* written in ascending key order, otherwise in the order of the dict.
JsonObject(d, sort_keys) ==
    LET items == IF sort_keys THEN SortItemsByKey(d) ELSE d
    IN  [k \in 1..Len(items) |-> <<items[k][1], str(items[k][2])>>]

\* json.dumps(obj, sort_keys=...): sort_keys applies to every nested dict.
json_dumps(obj, sort_keys) ==
    [f \in DOMAIN obj |->
        IF f \in DistFields THEN JsonObject(obj[f], sort_keys)
        ELSE IF f = "total_addons" THEN str(obj[f])
        ELSE obj[f]]

\* int(digits)
RECURSIVE ParseInt(_)
ParseInt(digits) ==
    IF digits = <<>> THEN 0
    ELSE ParseInt(SubSeq(digits, 1, Len(digits) - 1)) * 10
         + (digits[Len(digits)] - 48)

\* json.loads of an object: a dict with the members in document order.
RECURSIVE JsonLoadsObject(_, _)
JsonLoadsObject(d, members) ==
    IF members = <<>> THEN d
    ELSE JsonLoadsObject(DictPut(d, Head(members)[1], ParseInt(Head(members)[2])),
                         Tail(members))

json_loads(text) ==
    [f \in DOMAIN text |->
        IF f \in DistFields THEN JsonLoadsObject(<<>>, text[f])
        ELSE IF f = "total_addons" THEN ParseInt(text[f])
        ELSE text[f]]

notRender == <<addon_list, pc, outcome, fold, parse, fetch, wsgi, web>>

RenderInit ==
    /\ \E summary \in RenderSummaries :
           render = [summary |-> summary, stage |-> "summary", by |-> "none",
                     value |-> <<>>]
    /\ SummarizeIdle
    /\ fold = Idle /\ parse = Idle /\ fetch = Idle /\ wsgi = Idle /\ web = Idle

\* __main__.py line 45 / web.py line 138: summary.to_dict()
ToDict ==
    /\ render.stage = "summary"
    /\ render' = [render EXCEPT !.stage = "dict",
                                !.value = to_dict(render.summary)]
    /\ UNCHANGED notRender

\* __main__.py line 46: json.dumps(data, indent=2, sort_keys=True)
DumpsCli ==
    /\ render.stage = "dict"
    /\ render' = [render EXCEPT !.stage = "text", !.by = "cli",
                                !.value = json_dumps(render.value, TRUE)]
    /\ UNCHANGED notRender

\* web.py lines 139-140: payload.update({catalog_path, url});
\* json.dumps(payload)
DumpsApi ==
    /\ render.stage = "dict"
    /\ LET payload ==
            [f \in DOMAIN render.value \cup {"catalog_path", "url"} |->
                IF f = "catalog_path" THEN "addon_catalog.xml"
                ELSE IF f = "url" THEN "url"
                ELSE render.value[f]]
       IN  render' = [render EXCEPT !.stage = "text", !.by = "api",
                                   !.value = json_dumps(payload, FALSE)]
    /\ UNCHANGED notRender

\* the reader of the output: json.loads
Loads ==
    /\ render.stage = "text"
    /\ render' = [render EXCEPT !.stage = "decoded",
                                !.value = json_loads(render.value)]
    /\ UNCHANGED notRender

RenderNext == ToDict \/ DumpsCli \/ DumpsApi \/ Loads

RenderSpec == RenderInit /\ [][RenderNext]_vars

\* C12: rendering a summary to JSON, by the CLI or by GET /api/summary, and
\* decoding it reconstructs every count distribution: the same
\* label-to-count pairs in the same key order as in the summary.
C12_RoundTripKeepsPairsAndOrder ==
    render.stage = "decoded" =>
        \A f \in DistFields : render.value[f] = render.summary[f]

(***************************************************************************)
(* parser.py: _parse_date and parse_catalog.  An attribute value is a      *)
(* string, or None when the attribute is missing; None and the empty       *)
(* string are the same value <<>> here (line 15 takes both the same way).  *)
(* datetime.strptime is computed on the characters of the string.          *)
(***************************************************************************)
MaxElems == 2

\* Values of an AvailableDate attribute.
DateTexts ==
    {<<>>,                                                \* missing or ''
     <<32>>,                                              \* ' '
     <<32, 32>>,                                          \* '  '
     <<48, 49, 47, 49, 53, 47, 50, 48, 50, 53>>,          \* '01/15/2025'
     <<49, 47, 53, 47, 50, 48, 50, 53>>,                  \* '1/5/2025'
     <<49, 50, 47, 51, 49, 47, 50, 48, 50, 52>>,          \* '12/31/2024'
     <<32, 48, 49, 47, 49, 53, 47, 50, 48, 50, 53, 32>>,  \* ' 01/15/2025 '
     <<48, 49, 47, 49, 53, 47, 50, 53>>,                  \* '01/15/25'
     <<49, 47, 53, 47, 54, 57>>,                          \* '1/5/69'
     <<49, 50, 47, 51, 49, 47, 54, 56>>,                  \* '12/31/68'
     <<48, 50, 47, 50, 57, 47, 50, 48, 50, 52>>,          \* '02/29/2024'
     <<48, 50, 47, 50, 57, 47, 50, 48, 50, 53>>,          \* '02/29/2025'
     <<48, 50, 47, 51, 48, 47, 50, 52>>,                  \* '02/30/24'
     <<49, 51, 47, 48, 49, 47, 50, 48, 50, 53>>,          \* '13/01/2025'
     <<48, 48, 47, 49, 48, 47, 50, 48, 50, 53>>,          \* '00/10/2025'
     <<50, 48, 50, 53, 45, 48, 49, 45, 49, 53>>,          \* '2025-01-15'
     <<48, 49, 47, 49, 53, 47, 50, 48, 50>>,              \* '01/15/202'
     <<48, 49, 47, 49, 53, 47, 50, 48, 50, 53, 53>>,      \* '01/15/20255'
     <<115, 111, 111, 110>>,                              \* 'soon'
     <<48, 49, 47, 51, 50, 47, 50, 48, 50, 53>>,          \* '01/32/2025'
     <<49, 47, 32, 53, 47, 50, 48, 50, 53>>,              \* '1/ 5/2025'
     <<49, 47, 53, 47, 48, 48, 48, 48>>,                  \* '1/5/0000'
     <<49, 47, 53, 47>>}                                  \* '1/5/'

\* Values of an ExpirationDate attribute: missing, "soon".
ExpirationTexts == {None, <<115, 111, 111, 110>>}

IsSpace(c) == c \in {32, 9, 10, 13}
IsDigit(c) == c \in 48..57

\* str.strip()
RECURSIVE lstrip(_)
lstrip(s) == IF s # <<>> /\ IsSpace(Head(s)) THEN lstrip(Tail(s)) ELSE s
RECURSIVE rstrip(_)
rstrip(s) ==
    IF s # <<>> /\ IsSpace(s[Len(s)]) THEN rstrip(SubSeq(s, 1, Len(s) - 1))
    ELSE s
strip(s) == rstrip(lstrip(s))

\* The position of the first c in s at or after position from; 0 if none.
RECURSIVE Find(_, _, _)
Find(s, c, from) ==
    IF from > Len(s) THEN 0
    ELSE IF s[from] = c THEN from
    ELSE Find(s, c, from + 1)

\* The regular expressions of _strptime for %m and %d:
\* 1[0-2]|0[1-9]|[1-9]  and  3[0-1]|[1-2]\d|0[1-9]|[1-9]| [1-9]
MonthText(t) ==
    \/ Len(t) = 2 /\ t[1] = 49 /\ t[2] \in 48..50
    \/ Len(t) = 2 /\ t[1] = 48 /\ t[2] \in 49..57
    \/ Len(t) = 1 /\ t[1] \in 49..57
DayText(t) ==
    \/ Len(t) = 2 /\ t[1] = 51 /\ t[2] \in 48..49
    \/ Len(t) = 2 /\ t[1] \in 49..50 /\ IsDigit(t[2])
    \/ Len(t) = 2 /\ t[1] = 48 /\ t[2] \in 49..57
    \/ Len(t) = 1 /\ t[1] \in 49..57
    \/ Len(t) = 2 /\ t[1] = 32 /\ t[2] \in 49..57

\* int(t) for a month or day text (a leading blank is allowed by int())
FieldInt(t) == ParseInt(lstrip(t))

IsLeap(y) == y % 4 = 0 /\ (y % 100 # 0 \/ y % 400 = 0)
DaysInMonth(y, m) ==
    IF m = 2 THEN (IF IsLeap(y) THEN 29 ELSE 28)
    ELSE IF m \in {4, 6, 9, 11} THEN 30
    ELSE 31

DATE_FORMATS == <<"%m/%d/%Y", "%m/%d/%y">>

\* %Y is four digits, %y two.
YearDigits(fmt) == IF fmt = "%m/%d/%Y" THEN 4 ELSE 2

\* %y: 69-99 are 1969-1999, 00-68 are 2000-2068.
YearOf(fmt, n) ==
    IF fmt = "%m/%d/%Y" THEN n
    ELSE IF n <= 68 THEN 2000 + n
    ELSE 1900 + n

\* datetime.strptime(value, fmt).date(): [ok, date]; ok is FALSE for the
\* ValueError of a value that does not match the format, has text left
\* over, or names no day of the calendar.
strptime(value, fmt) ==
    LET i == Find(value, 47, 1)
        j == IF i = 0 THEN 0 ELSE Find(value, 47, i + 1)
        w == YearDigits(fmt)
        month_text == SubSeq(value, 1, i - 1)
        day_text   == SubSeq(value, i + 1, j - 1)
        year_text  == SubSeq(value, j + 1, Len(value))
        matched == /\ i > 0 /\ j > 0
                   /\ MonthText(month_text)
                   /\ DayText(day_text)
                   /\ Len(year_text) = w
                   /\ \A k \in 1..Len(year_text) : IsDigit(year_text[k])
        y == YearOf(fmt, ParseInt(year_text))
        m == FieldInt(month_text)
        d == FieldInt(day_text)
    IN  IF matched /\ y >= 1 /\ d <= DaysInMonth(y, m)
        THEN [ok |-> TRUE, date |-> <<y, m, d>>]
        ELSE [ok |-> FALSE, date |-> None]

\* Lines 20-25: the formats from position k on, in order.
RECURSIVE TryFormats(_, _)
TryFormats(value, k) ==
    IF k > Len(DATE_FORMATS)
    THEN [kind |-> "raise",
          exc |-> [type |-> "ValueError", arg |-> value], value |-> None]
    ELSE LET r == strptime(value, DATE_FORMATS[k])
         IN  IF r.ok THEN [kind |-> "return", exc |-> None, value |-> r.date]
             ELSE TryFormats(value, k + 1)

\* _parse_date with the final raise replaced by "return None".
parse_date_lenient(value) ==
    IF ~Truthy(value) \/ ~Truthy(strip(value))
    THEN [kind |-> "return", exc |-> None, value |-> None]
    ELSE LET r == TryFormats(strip(value), 1)
         IN  IF r.kind = "raise"
             THEN [kind |-> "return", exc |-> None, value |-> None]
             ELSE r

\* _parse_date, lines 14-25.
parse_date(value) ==
    IF ~Truthy(value) THEN [kind |-> "return", exc |-> None, value |-> None]
    ELSE IF ~Truthy(strip(value))
    THEN [kind |-> "return", exc |-> None, value |-> None]
    ELSE TryFormats(strip(value), 1)

\* The <addon> elements of a document, as their AvailableDate and
\* ExpirationDate attributes, or a text that is not well-formed XML.
Elements == [AvailableDate : DateTexts, ExpirationDate : ExpirationTexts]
Documents ==
    {[well_formed |-> FALSE, elements |-> <<>>]}
    \cup {[well_formed |-> TRUE, elements |-> e] :
              e \in UNION {[1..n -> Elements] : n \in 0..MaxElems}}

notParse == <<addon_list, pc, outcome, fold, render, fetch, wsgi, web>>

ParseInit ==
    /\ \E doc \in Documents :
           parse = [doc |-> doc, stage |-> "call", addons |-> <<>>,
                    exc |-> None, returned |-> None]
    /\ SummarizeIdle
    /\ fold = Idle /\ render = Idle /\ fetch = Idle /\ wsgi = Idle /\ web = Idle

\* Line 79: root = ET.fromstring(xml_text) raises ParseError for a text
\* that is not well-formed; line 80: addons = [].
ParseRoot ==
    /\ parse.stage = "call"
    /\ parse' = IF parse.doc.well_formed
                 THEN [parse EXCEPT !.stage = "loop"]
                 ELSE [parse EXCEPT !.stage = "raised",
                                    !.exc = [type |-> "ParseError", arg |-> None]]
    /\ UNCHANGED notParse

\* Lines 81-96, one <addon> element: an exception of _parse_date leaves
\* parse_catalog, and the list built so far with it.
ParseAddon ==
    /\ parse.stage = "loop"
    /\ Len(parse.addons) < Len(parse.doc.elements)
    /\ LET elem == parse.doc.elements[Len(parse.addons) + 1]
           available == parse_date(elem.AvailableDate)
           expiration == parse_date(elem.ExpirationDate)
       IN  parse' =
               IF available.kind = "raise"
               THEN [parse EXCEPT !.stage = "raised", !.exc = available.exc,
                                  !.addons = <<>>]
               ELSE IF expiration.kind = "raise"
               THEN [parse EXCEPT !.stage = "raised", !.exc = expiration.exc,
                                  !.addons = <<>>]
               ELSE [parse EXCEPT !.addons =
                        Append(@, [available_date |-> available.value,
                                   expiration_date |-> expiration.value])]
    /\ UNCHANGED notParse

\* Line 97: return addons
ParseReturn ==
    /\ parse.stage = "loop"
    /\ Len(parse.addons) = Len(parse.doc.elements)
    /\ parse' = [parse EXCEPT !.stage = "returned", !.returned = <<parse.addons>>]
    /\ UNCHANGED notParse

ParseNext == ParseRoot \/ ParseAddon \/ ParseReturn

ParseSpec == ParseInit /\ [][ParseNext]_vars

ParseFinished == parse.stage \in {"returned", "raised"}

\* A missing, empty or whitespace-only attribute.
Blank(v) == \A k \in 1..Len(v) : IsSpace(v[k])

\* The positions in DATE_FORMATS of the formats the trimmed value matches.
Matching(v) ==
    {k \in 1..Len(DATE_FORMATS) : strptime(strip(v), DATE_FORMATS[k]).ok}

Unrecognized(v) == ~Blank(v) /\ Matching(v) = {}

\* The date of the first format that matches.
FirstMatchDate(v) ==
    LET k == CHOOSE x \in Matching(v) : \A y \in Matching(v) : x <= y
    IN  strptime(strip(v), DATE_FORMATS[k]).date

\* The date attributes of a document in the order parse_catalog reads them.
RECURSIVE DateAttributes(_)
DateAttributes(elements) ==
    IF elements = <<>> THEN <<>>
    ELSE <<Head(elements).AvailableDate, Head(elements).ExpirationDate>>
         \o DateAttributes(Tail(elements))

\* C18: a missing, empty or whitespace-only date attribute gives an absent
\* date; any other gives the date of the first format of DATE_FORMATS that
\* matches the trimmed value; and parse_catalog of a well-formed document
\* raises, returning no list, exactly when some date attribute is non-blank
\* and matches no format, with an error that carries the trimmed value.
C18_ParseDateContract ==
    (ParseFinished /\ parse.doc.well_formed) =>
        LET attrs == DateAttributes(parse.doc.elements)
            bad   == {k \in 1..Len(attrs) : Unrecognized(attrs[k])}
        IN  IF bad # {}
            THEN /\ parse.stage = "raised"
                 /\ parse.returned = None
                 /\ parse.exc.type = "ValueError"
                 /\ \E k \in bad :
                        /\ \A x \in bad : k <= x
                        /\ parse.exc.arg = strip(attrs[k])
            ELSE /\ parse.stage = "returned"
                 /\ Len(parse.returned[1]) = Len(parse.doc.elements)
                 /\ \A i \in 1..Len(parse.doc.elements) :
                        LET elem  == parse.doc.elements[i]
                            addon == parse.returned[1][i]
                        IN  /\ addon.available_date =
                                   IF Blank(elem.AvailableDate) THEN None
                                   ELSE FirstMatchDate(elem.AvailableDate)
                            /\ addon.expiration_date =
                                   IF Blank(elem.ExpirationDate) THEN None
                                   ELSE FirstMatchDate(elem.ExpirationDate)

\* C18, reached: parse_catalog has raised on the second element of a
\* document whose first element has a two-digit-year date, padded with
\* blanks or not, and no expiration date.
C18_RaisedOnSecondElement ==
    /\ parse.stage = "raised"
    /\ parse.exc.type = "ValueError"
    /\ Len(parse.doc.elements) = 2
    /\ Matching(parse.doc.elements[1].AvailableDate) = {2}
    /\ Blank(parse.doc.elements[1].ExpirationDate)
    /\ Unrecognized(parse.doc.elements[2].AvailableDate)

(***************************************************************************)
(* fetch.py: calls of fetch_catalog, one after the other, on one           *)
(* destination path.  A response body is a sequence of chunks (what one    *)
(* stream.read(8192) returns); chunk <<c, k>> is the k-th chunk of the     *)
(* body served to call c.  urlopen and stream.read may raise (URLError,    *)
(* timeout, connection reset).                                             *)
(***************************************************************************)
MaxCalls == 3
MaxChunks == 2

Destinations == {"addon_catalog.xml", ".cache/web_addon_catalog.xml"}

Body(c, n) == [k \in 1..n |-> <<c, k>>]

NoFile == <<"no file">>
NoCall == [stage |-> "none", body |-> <<>>, left |-> <<>>]

notFetch == <<addon_list, pc, outcome, fold, render, parse, wsgi, web>>

FetchInit ==
    /\ \E destination \in Destinations :
           fetch = [destination |-> destination, file |-> NoFile,
                    call |-> NoCall, calls |-> 0,
                    last_ok |-> None, last_return |-> None,
                    last_result |-> "none"]
    /\ SummarizeIdle
    /\ fold = Idle /\ render = Idle /\ parse = Idle /\ wsgi = Idle /\ web = Idle

\* Line 40: urlopen(url, timeout=timeout) returns a response.
UrlOpen ==
    /\ fetch.call.stage = "none"
    /\ fetch.calls < MaxCalls
    /\ \E n \in 0..MaxChunks :
           fetch' = [fetch EXCEPT
                        !.calls = @ + 1,
                        !.call = [stage |-> "response",
                                  body |-> Body(fetch.calls + 1, n),
                                  left |-> Body(fetch.calls + 1, n)]]
    /\ UNCHANGED notFetch

\* Line 40: urlopen raises; the call ends before the file is opened.
UrlOpenFails ==
    /\ fetch.call.stage = "none"
    /\ fetch.calls < MaxCalls
    /\ fetch' = [fetch EXCEPT !.calls = @ + 1, !.last_result = "raised"]
    /\ UNCHANGED notFetch

\* Lines 12-13: mkdir(parents=True, exist_ok=True); destination.open("wb")
\* creates the file or truncates it.
OpenFile ==
    /\ fetch.call.stage = "response"
    /\ fetch' = [fetch EXCEPT !.call.stage = "writing", !.file = <<>>]
    /\ UNCHANGED notFetch

\* Lines 15-18: a chunk is read and written.
WriteChunk ==
    /\ fetch.call.stage = "writing"
    /\ fetch.call.left # <<>>
    /\ fetch' = [fetch EXCEPT !.file = Append(@, Head(fetch.call.left)),
                              !.call.left = Tail(@)]
    /\ UNCHANGED notFetch

\* Line 15: stream.read raises; the with statements close the file and the
\* response, and the exception leaves fetch_catalog.
ReadFails ==
    /\ fetch.call.stage = "writing"
    /\ fetch' = [fetch EXCEPT !.call = NoCall, !.last_result = "raised"]
    /\ UNCHANGED notFetch

\* Lines 16-17 and 42: the empty chunk ends the loop; return destination.
ReturnDestination ==
    /\ fetch.call.stage = "writing"
    /\ fetch.call.left = <<>>
    /\ fetch' = [fetch EXCEPT !.call = NoCall,
                              !.last_ok = <<fetch.call.body>>,
                              !.last_return = <<fetch.destination>>,
                              !.last_result = "returned"]
    /\ UNCHANGED notFetch

FetchNext ==
    \/ UrlOpen \/ UrlOpenFails \/ OpenFile
    \/ WriteChunk \/ ReadFails \/ ReturnDestination

FetchSpec == FetchInit /\ [][FetchNext]_vars

\* C17: between calls, once a fetch has succeeded, the cache file holds
\* exactly the complete bytes of the most recent successful fetch, whatever
\* failed fetches came after it, and a successful call returns the
\* destination path it was given.
C17_FileIsLastSuccessfulFetch ==
    (fetch.call.stage = "none" /\ fetch.last_ok # None) =>
        /\ fetch.file = fetch.last_ok[1]
        /\ fetch.last_return = <<fetch.destination>>

(***************************************************************************)
(* web.py: the WSGI application _app, served by wsgiref's make_server, one *)
(* request at a time.  What the catalog URL serves is the environment's    *)
(* choice: the fetch fails, the text does not parse, or it parses to a     *)
(* list of records, which summarize_addons then takes.                     *)
(***************************************************************************)
MaxRequests == 3

DEFAULT_URL == "https://ftp.hp.com/pub/tcimages/EasyUpdate/Images/addoncatalog.xml"
DEFAULT_CACHE == ".cache/addon_catalog.xml"

Methods == {"GET", "POST"}
Paths == {"/", "/api/summary", "/favicon.ico"}
\* The url parameter of the query string: missing, or given.
QueryUrls == {None, <<"http://example.com/catalog.xml">>}

ServedAddonLists ==
    {<<>>}
    \cup {<<Addon(<<65>>, <<>>, <<57>>, d, p)>> :
              d \in {None, <<2025, 1, 1>>}, p \in Profiles}

Served ==
    {[fetch |-> "raise", parse |-> "none", addons |-> <<>>],
     [fetch |-> "return", parse |-> "raise", addons |-> <<>>]}
    \cup {[fetch |-> "return", parse |-> "return", addons |-> a] :
              a \in ServedAddonLists}

\* compute_summary, lines 23-31: the first exception leaves the function.
compute_summary(served) ==
    IF served.fetch = "raise"
    THEN [kind |-> "raise", exc |-> <<[type |-> "URLError"]>>,
          summary |-> <<>>, path |-> None]
    ELSE IF served.parse = "raise"
    THEN [kind |-> "raise", exc |-> <<[type |-> "ParseError"]>>,
          summary |-> <<>>, path |-> None]
    ELSE LET r == summarize_addons(served.addons)
         IN  IF r.kind = "raise"
             THEN [kind |-> "raise", exc |-> r.exc, summary |-> <<>>,
                   path |-> None]
             ELSE [kind |-> "return", exc |-> <<>>, summary |-> r.summary,
                   path |-> <<DEFAULT_CACHE>>]

\* params.get("url", [DEFAULT_URL])[0]
RequestUrl(query_url) == IF query_url = None THEN DEFAULT_URL ELSE query_url[1]

\* Lines 126-146 with the except branch answering 500 in place of 502.
api_summary_500(url, computed) ==
    IF computed.kind = "raise"
    THEN [status |-> 500, content_type |-> "application/json",
          body |-> json_dumps([error |-> computed.exc[1], url |-> url], FALSE)]
    ELSE LET summary_dict == to_dict(computed.summary[1])
             payload ==
                 [f \in DOMAIN summary_dict \cup {"catalog_path", "url"} |->
                     IF f = "catalog_path" THEN computed.path[1]
                     ELSE IF f = "url" THEN url
                     ELSE summary_dict[f]]
         IN  [status |-> 200, content_type |-> "application/json",
              body |-> json_dumps(payload, FALSE)]

\* Lines 126-146.
api_summary(url, computed) ==
    IF computed.kind = "raise"
    THEN [status |-> 502, content_type |-> "application/json",
          body |-> json_dumps([error |-> computed.exc[1], url |-> url], FALSE)]
    ELSE LET summary_dict == to_dict(computed.summary[1])
             payload ==
                 [f \in DOMAIN summary_dict \cup {"catalog_path", "url"} |->
                     IF f = "catalog_path" THEN computed.path[1]
                     ELSE IF f = "url" THEN url
                     ELSE summary_dict[f]]
         IN  [status |-> 200, content_type |-> "application/json",
              body |-> json_dumps(payload, FALSE)]

\* Lines 148-164 and render_dashboard: the page shows the error banner of
\* _render_error and the summary section of _render_summary, which is
\* empty when summary is None.
index_page(url, computed) ==
    [status |-> 200, content_type |-> "text/html; charset=utf-8",
     body |-> [CATALOG_URL |-> url,
               ERROR_SECTION |-> computed.exc,
               SUMMARY_SECTION |-> computed.summary]]

NoResponse == [status |-> 0, content_type |-> "", body |-> <<>>]
NoServed == [fetch |-> "none", parse |-> "none", addons |-> <<>>]
NoRequest ==
    [method |-> "", path |-> "", url |-> "", served |-> NoServed,
     computed |-> "none"]

notWsgi == <<addon_list, pc, outcome, fold, render, parse, fetch, web>>

WsgiInit ==
    /\ wsgi = [handled |-> 0, request |-> NoRequest, response |-> NoResponse,
               last_good |-> <<>>]
    /\ SummarizeIdle
    /\ fold = Idle /\ render = Idle /\ parse = Idle /\ fetch = Idle /\ web = Idle

\* Lines 117-119: a request that is not a GET.
MethodNotAllowed ==
    /\ wsgi.handled < MaxRequests
    /\ \E method \in Methods \ {"GET"}, path \in Paths, q \in QueryUrls :
           wsgi' = [wsgi EXCEPT
                       !.handled = @ + 1,
                       !.request = [method |-> method, path |-> path,
                                    url |-> RequestUrl(q), served |-> NoServed,
                                    computed |-> "none"],
                       !.response = [status |-> 405,
                                     content_type |-> "text/plain; charset=utf-8",
                                     body |-> "Method not allowed"]]
    /\ UNCHANGED notWsgi

\* Lines 125-146: GET /api/summary.
ApiSummary ==
    /\ wsgi.handled < MaxRequests
    /\ \E q \in QueryUrls, served \in Served :
           LET computed == compute_summary(served)
           IN  wsgi' = [wsgi EXCEPT
                           !.handled = @ + 1,
                           !.request = [method |-> "GET", path |-> "/api/summary",
                                        url |-> RequestUrl(q), served |-> served,
                                        computed |-> computed.kind],
                           !.response = api_summary(RequestUrl(q), computed),
                           !.last_good = IF computed.kind = "return"
                                         THEN computed.summary ELSE @]
    /\ UNCHANGED notWsgi

\* Lines 148-164: GET /.
Index ==
    /\ wsgi.handled < MaxRequests
    /\ \E q \in QueryUrls, served \in Served :
           LET computed == compute_summary(served)
           IN  wsgi' = [wsgi EXCEPT
                           !.handled = @ + 1,
                           !.request = [method |-> "GET", path |-> "/",
                                        url |-> RequestUrl(q), served |-> served,
                                        computed |-> computed.kind],
                           !.response = index_page(RequestUrl(q), computed),
                           !.last_good = IF computed.kind = "return"
                                         THEN computed.summary ELSE @]
    /\ UNCHANGED notWsgi

\* Lines 166-167: any other path.
NotFound ==
    /\ wsgi.handled < MaxRequests
    /\ \E path \in Paths \ {"/", "/api/summary"}, q \in QueryUrls :
           wsgi' = [wsgi EXCEPT
                       !.handled = @ + 1,
                       !.request = [method |-> "GET", path |-> path,
                                    url |-> RequestUrl(q), served |-> NoServed,
                                    computed |-> "none"],
                       !.response = [status |-> 404,
                                     content_type |-> "text/plain; charset=utf-8",
                                     body |-> "Not found"]]
    /\ UNCHANGED notWsgi

WsgiNext == MethodNotAllowed \/ ApiSummary \/ Index \/ NotFound

WsgiSpec == WsgiInit /\ [][WsgiNext]_vars

\* The fields of CatalogSummary (analysis.py lines 13-22).
SummaryFields ==
    {"total_addons", "unique_platforms", "unique_os_types",
     "unique_architectures", "latest_versions", "latest_version_details",
     "platform_counts", "os_type_counts", "architecture_counts",
     "monthly_release_counts"}

AllSucceeded(served) ==
    /\ served.fetch = "return"
    /\ served.parse = "return"
    /\ summarize_addons(served.addons).kind = "return"

EmptySummary == CatalogSummary(0, <<>>, <<>>, <<>>, <<>>)

\* C14: a GET / whose fetch, parse or aggregation failed answers with an
\* error banner and shows the summary of the most recent earlier successful
\* request, or the empty summary when no earlier request succeeded.
C14_FailureShowsLastGood ==
    (/\ wsgi.request.method = "GET"
     /\ wsgi.request.path = "/"
     /\ wsgi.request.computed = "raise") =>
        /\ wsgi.response.body.ERROR_SECTION # <<>>
        /\ wsgi.response.body.SUMMARY_SECTION =
               IF wsgi.last_good # <<>> THEN wsgi.last_good
               ELSE <<EmptySummary>>

(***************************************************************************)
(* webapp.py: the threaded dashboard.  run() serves requests with          *)
(* CatalogRequestHandler on a ThreadingHTTPServer once the module body has *)
(* been executed: the import of line 14 and the class body of line 209,    *)
(* which calls summarize_addons([]).                                       *)
(***************************************************************************)
MaxWebRequests == 2

WEB_DEFAULT_URL == "https://ftp.hp.com/pub/tcimages/EasyUpdate/Images/addoncatalog.xml"

\* The requests sent to the dashboard: the url parameter and the filters.
WebRequests ==
    [url : {WEB_DEFAULT_URL, "http://example.com/catalog.xml"},
     selected_platforms : {<<>>, <<mt440>>},
     selected_os_types : {<<>>, <<Windows>>},
     selected_architectures : {<<>>, <<x64>>}]

\* from module import n1, n2, ...: the first name the module does not
\* define raises ImportError.
RECURSIVE ImportFrom(_, _, _)
ImportFrom(defined, names, line) ==
    IF names = <<>> THEN <<>>
    ELSE IF Head(names) \notin defined
    THEN <<[type |-> "ImportError", arg |-> Head(names), line |-> line]>>
    ELSE ImportFrom(defined, Tail(names), line)

\* PageModel, lines 23-31.
PageModel(summary, current_url) ==
    [summary |-> summary, current_url |-> current_url,
     selected_platforms |-> <<>>, selected_os_types |-> <<>>,
     selected_architectures |-> <<>>, error |-> None]

\* _matches_filters, lines 99-110.
matches_filters(addon, model) ==
    IF /\ Truthy(model.selected_platforms)
       /\ Range(addon.platforms) \cap Range(model.selected_platforms) = {}
    THEN FALSE
    ELSE IF /\ Truthy(model.selected_os_types)
            /\ Range(addon.os_types) \cap Range(model.selected_os_types) = {}
    THEN FALSE
    ELSE IF /\ Truthy(model.selected_architectures)
            /\ addon.architecture \notin Range(model.selected_architectures)
    THEN FALSE
    ELSE TRUE

\* render_page, lines 166-168: the rows of the latest-details table.
RECURSIVE FilterDetails(_, _)
FilterDetails(details, model) ==
    IF details = <<>> THEN <<>>
    ELSE (IF matches_filters(Head(details), model) THEN <<Head(details)>>
          ELSE <<>>) \o FilterDetails(Tail(details), model)

filtered_details(model) ==
    FilterDetails(model.summary.latest_version_details, model)

notWeb == <<addon_list, pc, outcome, fold, render, parse, fetch, wsgi>>

WebInit ==
    /\ \E requests \in UNION {[1..n -> WebRequests] : n \in 1..MaxWebRequests} :
           web = [stage |-> "start", requests |-> requests, exc |-> <<>>,
                  model_cache |-> <<>>, responses |-> <<>>]
    /\ SummarizeIdle
    /\ fold = Idle /\ render = Idle /\ parse = Idle /\ fetch = Idle /\ wsgi = Idle

\* python -m addon_catalog.webapp: the module body runs before run().
\* Line 14 imports CatalogSummary, LatestAddonEntry and summarize_addons
\* from analysis; line 209 sets model_cache to
\* PageModel(summarize_addons([]), DEFAULT_URL); an exception of either
\* ends the program before the server exists.
RunWebapp ==
    /\ web.stage = "start"
    /\ LET imported ==
               ImportFrom(ModuleNames,
                          <<"CatalogSummary", "LatestAddonEntry",
                            "summarize_addons">>, 14)
           empty == summarize_addons(<<>>)
       IN  web' =
               IF imported # <<>>
               THEN [web EXCEPT !.stage = "failed", !.exc = imported]
               ELSE IF empty.kind = "raise"
               THEN [web EXCEPT !.stage = "failed", !.exc = empty.exc]
               ELSE [web EXCEPT
                        !.stage = "serving",
                        !.model_cache =
                            <<PageModel(empty.summary[1], WEB_DEFAULT_URL)>>]
    /\ UNCHANGED notWeb

WebNext == RunWebapp

WebSpec == WebInit /\ [][WebNext]_vars

Serving == web.stage = "serving"

\* C15: the dashboard serves concurrent requests for different catalog URLs
\* independently: it is serving, and every request that succeeded rendered
\* a summary computed from exactly the bytes fetched from its own URL.
C15_RequestsRenderOwnBytes ==
    web.stage # "start" =>
        /\ Serving
        /\ \A k \in 1..Len(web.responses) :
               web.responses[k].error = None =>
                   web.responses[k].xml_url = web.requests[k].url

\* C16: the display filters are a pure post-filter: the dashboard is
\* serving, and every answered request rendered the totals, unique lists and
\* distributions of its unfiltered summary, stored that summary in the
\* slot, and rendered exactly the latest-details records that match every
\* non-empty selection.
C16_FiltersArePostFilter ==
    web.stage # "start" =>
        /\ Serving
        /\ \A k \in 1..Len(web.responses) :
               LET response == web.responses[k]
               IN  /\ response.rendered_summary = response.model.summary
                   /\ response.stored.summary = response.model.summary
                   /\ response.rows =
                          filtered_details([response.model EXCEPT
                              !.selected_platforms =
                                  web.requests[k].selected_platforms,
                              !.selected_os_types =
                                  web.requests[k].selected_os_types,
                              !.selected_architectures =
                                  web.requests[k].selected_architectures])

\* C20: the dashboard is serving, and a request whose load failed left in
\* the slot, by its write-back, the summary the slot held just before that
\* write-back (the one stored by the latest successful request), never an
\* older summary it had read earlier.
C20_FailureKeepsSlotSummary ==
    web.stage # "start" =>
        /\ Serving
        /\ \A k \in 1..Len(web.responses) :
               web.responses[k].error # None =>
                   web.responses[k].stored.summary =
                       web.responses[k].slot_before.summary

====
